---- MODULE Spec2Model ----
(***************************************************************************)
(* electrsd: spawn / retry / readiness / teardown of an electrs daemon.    *)
(*                                                                         *)
(* The model follows src/src/lib.rs.  ElectrsD::with_conf is a blocking    *)
(* call that talks to the companion node, creates the data directory,      *)
(* asks the OS for free ports, spawns the daemon and polls it; the daemon  *)
(* and the other processes of the machine run concurrently, so the call is *)
(* split at the points where it observes them.  Its recursion (the retry   *)
(* after an early exit) is a tail call: `frame` holds the locals of the    *)
(* innermost activation and `depth` counts the activations.  The           *)
(* controller returned is then driven by trigger(), kill() and drop, all   *)
(* from the one thread that owns it.                                       *)
(*                                                                         *)
(* Spec      one call of with_conf and the life of its controller          *)
(* SpecPoll  the same call made by a thread that keeps running (fairness)  *)
(* SpecPair  two calls, the second while the first controller is alive     *)
(* SpecReap  one call in a program where others wait for children too      *)
(* SpecExt   wait_height and wait_tx of src/src/ext.rs on a live controller*)
(* SpecExe   exe_path over the environments it can be called in            *)
(* SpecDir   the choice of the data directory over its inputs              *)
(***************************************************************************)
EXTENDS Integers, Sequences, FiniteSets

\* ------------------------------------------------------------------ bounds

\* largest retry budget (Conf::attempts) a call is given
MaxAttempts == 3
\* TCP ports of the machine: 1..MaxPort
MaxPort == 4
\* explicit kill() calls on one controller
MaxKills == 2
\* highest block the electrum server gets to index
MaxHeight == 3
\* most outputs of the transaction wait_tx is asked about
MaxOutputs == 2
\* most directories in PATH
MaxDirs == 2

\* Conf::default().attempts
DefaultAttempts == 3

\* for _ in 0..600, in wait_height and in wait_tx
WaitHeightAttempts == 600
WaitTxAttempts == 600

\* the calls of with_conf a caller may make, each with a slot for its
\* subprocess and its controller: a first one and a second one, made while
\* the controller of the first may still be alive
Slots == {1, 2}

Ports == 1..MaxPort
NoPort == 0

\* exit statuses: a clean exit, an error exit, death by SIGKILL
StatusOk == "exit0"
StatusFail == "exit1"
StatusKilled == "sigkill"
OwnStatuses == {StatusOk, StatusFail}

VARIABLES
  calls,    \* top-level calls of with_conf started so far
  pc,       \* where the with_conf call in progress stands ("idle": none)
  conf,     \* the Conf the caller gave the call in progress
  depth,    \* activations of with_conf in the call (1 + retries taken)
  frame,    \* the locals of the innermost activation (kept until the next call)
  spawns,   \* subprocesses spawned by the call
  result,   \* what the last finished top-level call gave its caller
  node,     \* the companion node
  procs,    \* the subprocess of each call: the one spawned last, every
            \* earlier one having been reaped before the retry
  foreign,  \* the port a process of another program holds, or NoPort
  ctl,      \* the controllers, by slot
  stray,    \* a signal was delivered to a pid we had already reaped
  server,   \* what the electrum server of the daemon has indexed
  wait,     \* the wait_height / wait_tx call in progress
  env,      \* the environment variables and the files a call looks at
  ret       \* what exe_path, or the choice of the data directory, gave

\* the lifecycle of the daemon (lib.rs), and the waiting calls (ext.rs)
lifevars ==
  <<calls, pc, conf, depth, frame, spawns, result, node, procs, foreign, ctl,
    stray>>
extvars == <<server, wait>>
envvars == <<env, ret>>

vars == <<lifevars, extvars, envvars>>

\* ------------------------------------------------------------------ data

\* Conf: the fields that decide control flow
Confs ==
  [view_stderr : BOOLEAN, tmpdir : BOOLEAN, staticdir : BOOLEAN,
   http_enabled : BOOLEAN, attempts : 0..MaxAttempts]

\* Conf::default()
DefaultConf ==
  [view_stderr |-> FALSE, tmpdir |-> FALSE, staticdir |-> FALSE,
   http_enabled |-> FALSE, attempts |-> DefaultAttempts]

NoArgs == [electrum |-> NoPort, monitoring |-> NoPort, http |-> NoPort]

\* the locals of one activation of with_conf
NewFrame(c) ==
  [conf |-> c, work_dir |-> "none", electrum_url |-> NoPort,
   monitoring |-> NoPort, esplora_url |-> NoPort, allocs |-> 0,
   args |-> NoArgs, process |-> 0, try_wait |-> "unchecked",
   generated |-> 0]

NoResult == [kind |-> "none", err |-> "none", status |-> "none"]
OkResult == [kind |-> "Ok", err |-> "none", status |-> "none"]
ErrResult(e) == [kind |-> "Err", err |-> e, status |-> "none"]
PanicResult == [kind |-> "Panic", err |-> "none", status |-> "none"]

\* Error::EarlyExit(status)
EarlyExit(s) == [kind |-> "Err", err |-> "EarlyExit", status |-> s]

NoCtl ==
  [st |-> "none", process |-> 0, client |-> [port |-> NoPort, peer |-> 0],
   work_dir |-> "none", electrum_url |-> NoPort, esplora_url |-> NoPort,
   waited |-> FALSE, op |-> "none", ret |-> "none", dropkill |-> "none",
   surfaced |-> "none", kills |-> 0, explicit |-> 0, sigints |-> 0,
   sigkills |-> 0, waits |-> 0]

\* an electrum server that has indexed nothing
NoIndex == [tip |-> 0, tx |-> "unknown", outputs |-> 0]

\* no wait_height / wait_tx call in progress
NoWait ==
  [fn |-> "none", pc |-> "idle", i |-> 0, arg |-> 0, how |-> "none",
   raw |-> FALSE, hist |-> "none", asked |-> FALSE, unslept |-> FALSE]

\* nothing looked at in the environment, nothing returned
NoEnv == [kind |-> "none"]
NoRet == [kind |-> "none"]

\* ------------------------------------------------------------------ the OS

Alive(p) == procs[p].st \in {"starting", "listening"}

\* the ports a listening daemon holds
Held(p) ==
  IF procs[p].st = "listening"
    THEN {procs[p].electrum, procs[p].monitoring, procs[p].http} \ {NoPort}
    ELSE {}

BoundPorts == ({foreign} \ {NoPort}) \cup UNION {Held(p) : p \in Slots}

FreePorts == Ports \ BoundPorts

\* who accepts a TCP connection to port a: a daemon's pid, 0 for a foreign
\* process; empty when nothing listens there
Acceptors(a) ==
  {p \in Slots : a \in Held(p)} \cup (IF a = foreign THEN {0} ELSE {})

\* no process yet
NoProc ==
  [st |-> "none", status |-> "none", sigint |-> FALSE, electrum |-> NoPort,
   monitoring |-> NoPort, http |-> NoPort, stdout |-> "none",
   stderr |-> "none"]

\* a process that has exited with status s and waits to be reaped: its
\* sockets are closed
Zombie(s) ==
  [st |-> "zombie", status |-> s, sigint |-> FALSE, electrum |-> NoPort,
   monitoring |-> NoPort, http |-> NoPort, stdout |-> "none",
   stderr |-> "none"]

\* a process that has been waited: its pid is free again
Reaped(s) == [Zombie(s) EXCEPT !.st = "reaped"]

\* the process table after signal sig reaches pid p
Deliver(p, sig) ==
  IF ~Alive(p) THEN procs
  ELSE IF sig = "SIGKILL" THEN [procs EXCEPT ![p] = Zombie(StatusKilled)]
  ELSE IF sig = "SIGINT" THEN [procs EXCEPT ![p].sigint = TRUE]
  ELSE procs

\* the one thread that calls the library is inside with_conf, or blocked in
\* the wait() of a kill()
Busy == pc # "idle" \/ \E c \in Slots : ctl[c].op # "none"

Init ==
  /\ calls = 0
  /\ pc = "idle"
  /\ conf = DefaultConf
  /\ depth = 0
  /\ frame = NewFrame(DefaultConf)
  /\ spawns = 0
  /\ result = NoResult
  /\ node \in [ibd : BOOLEAN, p2p : BOOLEAN]
  /\ procs = [s \in Slots |-> NoProc]
  /\ foreign = NoPort
  /\ ctl = [c \in Slots |-> NoCtl]
  /\ stray = FALSE
  /\ server = NoIndex
  /\ wait = NoWait
  /\ env = NoEnv
  /\ ret = NoRet

\* ------------------------------------------------------------ with_conf

Return(res) ==
  /\ pc' = "idle"
  /\ result' = res

\* what is left of a controller once its owner has moved on: the counters of
\* a dropped controller are kept only until the next call
Settled(k) == IF k.st = "dropped" THEN [NoCtl EXCEPT !.st = "dropped"] ELSE k

\* the result of the last call has been taken: its locals are gone
ForgetCall ==
  /\ conf' = DefaultConf
  /\ depth' = 0
  /\ frame' = NewFrame(DefaultConf)
  /\ spawns' = 0
  /\ result' = NoResult

\* a caller invokes ElectrsD::with_conf(exe, bitcoind, c)
Call(c) ==
  /\ ~Busy
  /\ calls + 1 \in Slots
  /\ calls' = calls + 1
  /\ conf' = c
  /\ depth' = 1
  /\ frame' = NewFrame(c)
  /\ spawns' = 0
  /\ pc' = "start"
  /\ result' = NoResult
  /\ ctl' = [s \in Slots |-> Settled(ctl[s])]
  /\ UNCHANGED <<node, procs, foreign, stray, extvars, envvars>>

\* getblockchaininfo reports initialblockdownload
NeedsBlock(n) == n.ibd

\* generatetoaddress 1
Generate(n) == [n EXCEPT !.ibd = FALSE]

\* getblockchaininfo fails, or the node is in IBD and getnewaddress fails
StartRpcFail ==
  /\ pc = "start"
  /\ Return(ErrResult("Rpc"))
  /\ UNCHANGED <<calls, conf, depth, frame, spawns, node, procs, foreign, ctl, stray, extvars, envvars>>

\* the node is in IBD and generatetoaddress fails: unwrap() panics
StartPanic ==
  /\ pc = "start"
  /\ NeedsBlock(node)
  /\ Return(PanicResult)
  /\ UNCHANGED <<calls, conf, depth, frame, spawns, node, procs, foreign, ctl, stray, extvars, envvars>>

StartOk ==
  /\ pc = "start"
  /\ node' = IF NeedsBlock(node) THEN Generate(node) ELSE node
  /\ frame' = [frame EXCEPT !.generated = IF NeedsBlock(node) THEN 1 ELSE 0]
  /\ pc' = "workdir"
  /\ UNCHANGED <<calls, conf, depth, spawns, result, procs, foreign, ctl, stray, extvars, envvars>>

\* match (&conf.tmpdir, &conf.staticdir)
DataDirOf(c) ==
  IF c.tmpdir /\ c.staticdir THEN "BothDirsSpecified"
  ELSE IF c.staticdir THEN "Persistent"
  ELSE "Temporary"

WorkDirConflict ==
  /\ pc = "workdir"
  /\ DataDirOf(frame.conf) = "BothDirsSpecified"
  /\ Return(ErrResult("BothDirsSpecified"))
  /\ UNCHANGED <<calls, conf, depth, frame, spawns, node, procs, foreign, ctl, stray, extvars, envvars>>

\* TempDir::new_in / create_dir_all fails
WorkDirIoFail ==
  /\ pc = "workdir"
  /\ DataDirOf(frame.conf) # "BothDirsSpecified"
  /\ Return(ErrResult("Io"))
  /\ UNCHANGED <<calls, conf, depth, frame, spawns, node, procs, foreign, ctl, stray, extvars, envvars>>

WorkDirOk ==
  /\ pc = "workdir"
  /\ DataDirOf(frame.conf) # "BothDirsSpecified"
  /\ frame' = [frame EXCEPT !.work_dir = DataDirOf(frame.conf)]
  /\ pc' = "ports"
  /\ UNCHANGED <<calls, conf, depth, spawns, result, node, procs, foreign, ctl, stray, extvars, envvars>>

\* the build passes --daemon-p2p-addr: none of the features electrs_0_8_10,
\* esplora_a33e97e1 and legacy, which pass --jsonrpc-import instead
DaemonP2pAddr == TRUE

\* bitcoind.params.p2p_socket.expect(..) on a node started without a p2p port
PeerPanics(n) == DaemonP2pAddr /\ ~n.p2p

PeerPanic ==
  /\ pc = "ports"
  /\ PeerPanics(node)
  /\ Return(PanicResult)
  /\ UNCHANGED <<calls, conf, depth, frame, spawns, node, procs, foreign, ctl, stray, extvars, envvars>>

\* calls of get_available_port in one activation
PortsNeeded(c) == IF c.http_enabled THEN 3 ELSE 2

\* a daemon given the same three ports every time
FixedPorts == {1, 2, 3}

\* the ports get_available_port can return: those free now
AvailablePorts == FreePorts

\* get_available_port: a port free now, not reserved afterwards
AllocPorts ==
  /\ pc = "ports"
  /\ ~PeerPanics(node)
  /\ \E e \in AvailablePorts, m \in AvailablePorts :
       \E h \in (IF frame.conf.http_enabled THEN AvailablePorts ELSE {NoPort}) :
         frame' = [frame EXCEPT !.electrum_url = e, !.monitoring = m,
                                      !.esplora_url = h,
                                      !.allocs = PortsNeeded(frame.conf)]
  /\ pc' = "spawn"
  /\ UNCHANGED <<calls, conf, depth, spawns, result, node, procs, foreign, ctl, stray, extvars, envvars>>

AllocPortsFail ==
  /\ pc = "ports"
  /\ ~PeerPanics(node)
  /\ Return(ErrResult("Io"))
  /\ UNCHANGED <<calls, conf, depth, frame, spawns, node, procs, foreign, ctl, stray, extvars, envvars>>

\* the addresses pushed to args
SpawnArgs(f) ==
  [electrum |-> f.electrum_url, monitoring |-> f.monitoring,
   http |-> f.esplora_url]

\* let view_stderr = if conf.view_stderr { Stdio::inherit() } else
\* { Stdio::null() }
ViewStderr(c) == IF c.view_stderr THEN "inherit" ELSE "null"

\* what a Command that was not told otherwise gives spawn(): the stream of
\* the parent
StdioDefault == "inherit"

\* Command::new(&exe).args(args).stderr(view_stderr): stdout is not set
CommandStdio(c) == [stdout |-> StdioDefault, stderr |-> ViewStderr(c)]

NewProc(f) ==
  [st |-> "starting", status |-> "none", sigint |-> FALSE,
   electrum |-> SpawnArgs(f).electrum, monitoring |-> SpawnArgs(f).monitoring,
   http |-> SpawnArgs(f).http, stdout |-> CommandStdio(f.conf).stdout,
   stderr |-> CommandStdio(f.conf).stderr]

SpawnOk ==
  /\ pc = "spawn"
  /\ procs' = [procs EXCEPT ![calls] = NewProc(frame)]
  /\ frame' = [frame EXCEPT !.process = calls,
                            !.args = SpawnArgs(frame)]
  /\ spawns' = spawns + 1
  /\ pc' = "poll"
  /\ UNCHANGED <<calls, conf, depth, result, node, foreign, ctl, stray, extvars, envvars>>

\* a spawn error handled like an early exit
SpawnFailRetried ==
  /\ pc = "spawn"
  /\ IF frame.conf.attempts > 0
       THEN /\ frame' = NewFrame([frame.conf EXCEPT !.attempts = @ - 1])
            /\ depth' = depth + 1
            /\ pc' = "start"
            /\ UNCHANGED result
       ELSE /\ Return(ErrResult("Spawn"))
            /\ UNCHANGED <<depth, frame>>
  /\ UNCHANGED <<calls, conf, spawns, node, procs, foreign, ctl, stray, extvars, envvars>>

\* Command::spawn() fails: the error goes to the caller through `?`
SpawnFail ==
  /\ pc = "spawn"
  /\ Return(ErrResult("Spawn"))
  /\ UNCHANGED <<calls, conf, depth, frame, spawns, node, procs, foreign, ctl, stray, extvars, envvars>>

\* a retry test that is off by one
CanRetryOffByOne(c) == c.attempts > 1

\* if conf.attempts > 0
CanRetry(c) == c.attempts > 0

\* a retry that forgets to take an attempt off the budget
RetryConfKeep(c) == c

\* conf.clone(); conf.attempts -= 1
RetryConf(c) == [c EXCEPT !.attempts = c.attempts - 1]

\* a polling loop that does not look at the subprocess
TryWaitBlind(p) == "None"

\* what process.try_wait() reports for pid p: Some(status) for a child that
\* has exited, Err (ECHILD) for one that somebody else has waited for, and
\* None for one that runs
TryWait(p) ==
  IF procs[p].st = "zombie" THEN procs[p].status
  ELSE IF procs[p].st = "reaped" THEN "Err"
  ELSE "None"

\* Some(status)
IsSome(r) == r \notin {"None", "Err"}

Reap(p) == [procs EXCEPT ![p] = Reaped(procs[p].status)]

\* try_wait gives Some(status), attempts > 0: with_conf calls itself
PollRetry ==
  /\ pc = "poll"
  /\ IsSome(TryWait(frame.process))
  /\ CanRetry(frame.conf)
  /\ procs' = Reap(frame.process)
  /\ frame' = NewFrame(RetryConf(frame.conf))
  /\ depth' = depth + 1
  /\ pc' = "start"
  /\ UNCHANGED <<calls, conf, spawns, result, node, foreign, ctl, stray, extvars, envvars>>

\* try_wait gives Some(status), no attempt left
PollEarlyExit ==
  /\ pc = "poll"
  /\ IsSome(TryWait(frame.process))
  /\ ~CanRetry(frame.conf)
  /\ procs' = Reap(frame.process)
  /\ frame' = [frame EXCEPT !.try_wait = TryWait(frame.process)]
  /\ Return(EarlyExit(TryWait(frame.process)))
  /\ UNCHANGED <<calls, conf, depth, spawns, node, foreign, ctl, stray, extvars, envvars>>

\* process.try_wait()? gives Err: the error goes to the caller, and the
\* Child is dropped, which neither kills nor waits
PollWaitFail ==
  /\ pc = "poll"
  /\ TryWait(frame.process) = "Err"
  /\ frame' = [frame EXCEPT !.try_wait = "Err"]
  /\ Return(ErrResult("Io"))
  /\ UNCHANGED <<calls, conf, depth, spawns, node, procs, foreign, ctl, stray, extvars, envvars>>

\* try_wait gives None
PollAlive ==
  /\ pc = "poll"
  /\ TryWait(frame.process) = "None"
  /\ frame' = [frame EXCEPT !.try_wait = "None"]
  /\ pc' = "connect"
  /\ UNCHANGED <<calls, conf, depth, spawns, result, node, procs, foreign, ctl, stray, extvars, envvars>>

\* polling the monitoring endpoint instead of the electrum one
ConnectAddrMonitoring(f) == f.monitoring

\* the address RawClient::new is given
ConnectAddr(f) == f.electrum_url

\* Ok(ElectrsD { process, client, work_dir, electrum_url, esplora_url })
NewController(f, cl) ==
  [NoCtl EXCEPT !.st = "live", !.process = f.process, !.client = cl,
                !.work_dir = f.work_dir, !.electrum_url = f.electrum_url,
                !.esplora_url = f.esplora_url]

\* RawClient::new succeeds: break client, and the controller is returned
ConnectOk ==
  /\ pc = "connect"
  /\ \E a \in Acceptors(ConnectAddr(frame)) :
       ctl' = [ctl EXCEPT ![calls] =
                 NewController(frame, [port |-> ConnectAddr(frame), peer |-> a])]
  /\ Return(OkResult)
  /\ UNCHANGED <<calls, conf, depth, frame, spawns, node, procs, foreign, stray, extvars, envvars>>

\* a polling loop that gives up when the connection fails
ConnectGiveUp ==
  /\ pc = "connect"
  /\ Acceptors(ConnectAddr(frame)) = {}
  /\ Return(ErrResult("Io"))
  /\ UNCHANGED <<calls, conf, depth, frame, spawns, node, procs, foreign, ctl, stray, extvars, envvars>>

\* RawClient::new fails: sleep 500ms and loop
ConnectRetry ==
  /\ pc = "connect"
  /\ Acceptors(ConnectAddr(frame)) = {}
  /\ pc' = "poll"
  /\ UNCHANGED <<calls, conf, depth, frame, spawns, result, node, procs, foreign, ctl, stray, extvars, envvars>>

\* ------------------------------------------------- the daemon, the others

\* the daemon binds its endpoints
DaemonListen(p) ==
  /\ procs[p].st = "starting"
  /\ LET want == <<procs[p].electrum, procs[p].monitoring>>
                 \o (IF procs[p].http = NoPort THEN <<>> ELSE <<procs[p].http>>)
     IN /\ \A i \in 1..Len(want) : want[i] \in FreePorts
        /\ \A i, j \in 1..Len(want) : i # j => want[i] # want[j]
  /\ procs' = [procs EXCEPT ![p].st = "listening"]
  /\ UNCHANGED <<calls, pc, conf, depth, frame, spawns, result, node, foreign, ctl, stray, extvars, envvars>>

\* the daemon exits by itself: a port it wanted is taken, the node is gone,
\* or it was interrupted
DaemonExit(p, s) ==
  /\ Alive(p)
  /\ procs' = [procs EXCEPT ![p] = Zombie(s)]
  /\ UNCHANGED <<calls, pc, conf, depth, frame, spawns, result, node, foreign, ctl, stray, extvars, envvars>>

\* a child that has exited is waited for by somebody else in the test
\* program: a wait() for any child in another thread, or SIGCHLD ignored
ReapedElsewhere(p) ==
  /\ procs[p].st = "zombie"
  /\ procs' = Reap(p)
  /\ UNCHANGED <<calls, pc, conf, depth, frame, spawns, result, node, foreign, ctl, stray, extvars, envvars>>

\* another program binds a free port
ForeignBind(a) ==
  /\ a \in FreePorts
  /\ foreign = NoPort
  /\ foreign' = a
  /\ UNCHANGED <<calls, pc, conf, depth, frame, spawns, result, node, procs, ctl, stray, extvars, envvars>>

\* ------------------------------------------------------- the controller

\* kill(2) of a pid: a reaped pid is gone (ESRCH) or belongs to someone else
SignalOutcomes(p) ==
  IF procs[p].st = "reaped" THEN {"ESRCH", "stray"} ELSE {"delivered"}

Usable(c) == ctl[c].st = "live" /\ ~Busy

\* trigger(): SIGUSR1 to self.process.id()
Trigger(c) ==
  /\ Usable(c)
  /\ \E o \in SignalOutcomes(ctl[c].process) :
       /\ procs' = IF o = "delivered"
                     THEN Deliver(ctl[c].process, "SIGUSR1") ELSE procs
       /\ stray' = (stray \/ o = "stray")
  /\ ForgetCall
  /\ UNCHANGED <<calls, pc, node, foreign, ctl, extvars, envvars>>

\* a kill() that never waits, and one that always does
KillModeForceful(dir) == "forceful"
KillModeGraceful(dir) == "graceful"

\* match self.work_dir in kill()
KillMode(dir) == IF dir = "Persistent" THEN "graceful" ELSE "forceful"

\* a drop that unwraps the result of kill()
DropSurfacesErr(r) == IF r = "Err" THEN "Err" ELSE "none"

\* what the caller of drop sees of the error of kill(): let _ = self.kill()
DropSurfaces(r) == "none"

\* kill() is over with value r: returned to the caller (how = "kill"), or the
\* end of drop (how = "drop")
Finish(k, how, r) ==
  IF how = "kill"
    THEN [k EXCEPT !.ret = r, !.op = "none"]
    ELSE [k EXCEPT !.st = "dropped", !.op = "none", !.dropkill = r,
                   !.surfaced = DropSurfaces(r)]

\* kill() is entered, by the caller or by drop
Entered(k, how) ==
  [k EXCEPT !.kills = @ + 1, !.explicit = @ + (IF how = "kill" THEN 1 ELSE 0)]

\* Temporary: self.process.kill(), which signals nothing once the child has
\* been waited and does not wait
ForcefulKill(c, how) ==
  LET k == Entered(ctl[c], how)
      sent == ~k.waited
  IN /\ procs' = IF sent THEN Deliver(k.process, "SIGKILL") ELSE procs
     /\ ctl' = [ctl EXCEPT ![c] =
          Finish([k EXCEPT !.sigkills = @ + (IF sent THEN 1 ELSE 0)],
                 how, "Ok")]
     /\ UNCHANGED stray

\* Persistent: self.inner_kill()? sends SIGINT, then self.process.wait()
GracefulKill(c, how) ==
  LET k == Entered(ctl[c], how) IN
  \E o \in SignalOutcomes(k.process) :
     /\ procs' = IF o = "delivered" THEN Deliver(k.process, "SIGINT") ELSE procs
     /\ stray' = (stray \/ o = "stray")
     /\ ctl' = [ctl EXCEPT ![c] =
          IF o = "ESRCH"
            THEN Finish(k, how, "Err")
            ELSE [k EXCEPT !.sigints = @ + 1, !.op = how]]

KillStart(c, how) ==
  /\ Usable(c)
  /\ IF KillMode(ctl[c].work_dir) = "graceful"
       THEN GracefulKill(c, how)
       ELSE ForcefulKill(c, how)
  /\ ForgetCall
  /\ UNCHANGED <<calls, pc, node, foreign, extvars, envvars>>

\* an explicit kill()
Kill(c) ==
  /\ ctl[c].explicit < MaxKills
  /\ KillStart(c, "kill")

\* a controller without a Drop impl: the handle is released, nothing is killed
DropNoKill(c) ==
  /\ Usable(c)
  /\ ctl' = [ctl EXCEPT ![c].st = "dropped"]
  /\ ForgetCall
  /\ UNCHANGED <<calls, pc, node, procs, foreign, stray, extvars, envvars>>

\* impl Drop: let _ = self.kill()
Drop(c) ==
  /\ ctl[c].st = "live"
  /\ KillStart(c, "drop")

\* self.process.wait() returns: the child has exited (or was waited before)
KillWait(c) ==
  LET k == ctl[c] IN
  /\ k.st = "live"
  /\ k.op # "none"
  /\ k.waited \/ procs[k.process].st = "zombie"
  /\ procs' = IF k.waited THEN procs ELSE Reap(k.process)
  /\ ctl' = [ctl EXCEPT ![c] =
       Finish([k EXCEPT !.waited = TRUE, !.waits = @ + 1], k.op, "Ok")]
  /\ UNCHANGED <<calls, pc, conf, depth, frame, spawns, result, node, foreign, stray, extvars, envvars>>

\* ------------------------------------------- wait_height, wait_tx (ext.rs)

\* the controller whose client the waiting calls use
Waiter == 1

\* the electrum server answers while the daemon behind the client listens
ServerUp == procs[ctl[Waiter].process].st = "listening"

\* the daemon indexes one more block of the node
ServerIndexBlock ==
  /\ ServerUp
  /\ server.tip < MaxHeight
  /\ server' = [server EXCEPT !.tip = @ + 1]
  /\ UNCHANGED <<lifevars, wait, envvars>>

\* the daemon gets to know the transaction, then indexes its scripts
ServerIndexTx ==
  /\ ServerUp
  /\ server.tx # "indexed"
  /\ server' = [server EXCEPT !.tx = IF @ = "unknown" THEN "raw" ELSE "indexed"]
  /\ UNCHANGED <<lifevars, wait, envvars>>

\* the daemon crashes: every later request on the client fails
ServerStop ==
  /\ ServerUp
  /\ procs' = [procs EXCEPT ![ctl[Waiter].process] = Zombie(StatusFail)]
  /\ UNCHANGED <<calls, pc, conf, depth, frame, spawns, result, node, foreign,
                 ctl, stray, extvars, envvars>>

\* client.block_header_raw(h)
BlockHeaderRaw(h) == ServerUp /\ h <= server.tip

\* client.transaction_get(txid)
TransactionGet == ServerUp /\ server.tx # "unknown"

\* client.script_get_history(script of the first output): an error, or
\* whether the history holds the transaction
ScriptGetHistory ==
  IF ~ServerUp THEN "Err"
  ELSE IF server.tx = "indexed" THEN "hit" ELSE "miss"

\* a probe for the block below the one asked for
ProbeHeightBelow(h) == h - 1

\* the height wait_height asks the header of
ProbeHeight(h) == h

\* for _ in 0..n: the loop is over after n iterations
LoopEnds(n, i) == i >= n

\* the loop goes on to its next iteration, or is over
NextIteration(w, n) ==
  IF LoopEnds(n, w.i)
    THEN [w EXCEPT !.pc = "done", !.how = "exhausted"]
    ELSE [w EXCEPT !.pc = "probe"]

\* electrsd.wait_height(h)
CallWaitHeight(h) ==
  /\ wait.pc = "idle"
  /\ ctl[Waiter].st = "live"
  /\ wait' = [NoWait EXCEPT !.fn = "wait_height", !.pc = "probe", !.arg = h]
  /\ UNCHANGED <<lifevars, server, envvars>>

\* match self.client.block_header_raw(height): Ok(_) => break, Err(_) => sleep
HeightProbe ==
  /\ wait.fn = "wait_height"
  /\ wait.pc = "probe"
  /\ wait' = IF BlockHeaderRaw(ProbeHeight(wait.arg))
               THEN [wait EXCEPT !.i = @ + 1, !.pc = "done", !.how = "found"]
               ELSE [wait EXCEPT !.i = @ + 1, !.pc = "sleep"]
  /\ UNCHANGED <<lifevars, server, envvars>>

\* thread::sleep(Duration::from_millis(100)) is over
HeightSleep ==
  /\ wait.fn = "wait_height"
  /\ wait.pc = "sleep"
  /\ wait' = NextIteration(wait, WaitHeightAttempts)
  /\ UNCHANGED <<lifevars, server, envvars>>

\* electrsd.wait_tx(&txid)
CallWaitTx ==
  /\ wait.pc = "idle"
  /\ ctl[Waiter].st = "live"
  /\ wait' = [NoWait EXCEPT !.fn = "wait_tx", !.pc = "probe"]
  /\ UNCHANGED <<lifevars, server, envvars>>

\* a wait_tx that takes the raw transaction as proof enough
NeedsHistoryNever(outputs) == FALSE

\* if let Some(output) = tx.output.first()
NeedsHistory(outputs) == outputs > 0

\* match self.client.transaction_get(txid): Ok(tx) with no output => return,
\* Ok(tx) with outputs => ask for the history, Err(_) => sleep
TxProbe ==
  /\ wait.fn = "wait_tx"
  /\ wait.pc = "probe"
  /\ wait' =
       IF ~TransactionGet
         THEN [wait EXCEPT !.i = @ + 1, !.raw = FALSE, !.hist = "none",
                           !.pc = "sleep"]
       ELSE IF NeedsHistory(server.outputs)
         THEN [wait EXCEPT !.i = @ + 1, !.raw = TRUE, !.hist = "none",
                           !.pc = "history"]
       ELSE [wait EXCEPT !.i = @ + 1, !.raw = TRUE, !.hist = "none",
                         !.pc = "done", !.how = "found"]
  /\ UNCHANGED <<lifevars, server, envvars>>

\* script_get_history(..).unwrap(), then the search of the history: found =>
\* return, not found => continue 'main_loop, with no sleep
TxHistory ==
  /\ wait.fn = "wait_tx"
  /\ wait.pc = "history"
  /\ LET h == ScriptGetHistory
         w == [wait EXCEPT !.hist = h, !.asked = TRUE]
     IN wait' =
          IF h = "Err" THEN [w EXCEPT !.pc = "panic"]
          ELSE IF h = "hit" THEN [w EXCEPT !.pc = "done", !.how = "found"]
          ELSE NextIteration([w EXCEPT !.unslept = TRUE], WaitTxAttempts)
  /\ UNCHANGED <<lifevars, server, envvars>>

\* thread::sleep(Duration::from_millis(100)) is over
TxSleep ==
  /\ wait.fn = "wait_tx"
  /\ wait.pc = "sleep"
  /\ wait' = NextIteration(wait, WaitTxAttempts)
  /\ UNCHANGED <<lifevars, server, envvars>>

\* the waiting call has returned to its caller
WaitReturn ==
  /\ wait.pc = "done"
  /\ wait' = NoWait
  /\ UNCHANGED <<lifevars, server, envvars>>

\* ----------------------------------------------------------------- exe_path

\* an environment variable: not there, there with a Unicode value, or there
\* with a value that is not valid Unicode
VarStates == {"unset", "unicode", "bytes"}

\* what <dir>/electrs is, for a directory of PATH: nothing, a directory, a
\* file without an execute bit, a file with one
EntryKinds == {"none", "dir", "plain", "exec"}

\* sequences of at most n entries
DirLists(n) == UNION {[1..k -> EntryKinds] : k \in 0..n}

\* std::env::var(name): Err for a variable that is not there and for one whose
\* value is not Unicode
EnvVar(v) == IF v = "unicode" THEN "Ok" ELSE "Err"

\* std::env::var_os(name)
EnvVarOs(v) == IF v = "unset" THEN "None" ELSE "Some"

\* downloaded_exe_path()
DownloadedExePath(e) ==
  IF e.has_feature /\ EnvVarOs(e.skip_download) = "None"
    THEN "Some" ELSE "None"

\* candidate.is_file() and permissions.mode() & 0o111 != 0
IsExecutableFile(k) == k = "exec"

\* the for loop over path_var.split(':'): the first directory whose electrs
\* is an executable file, 0 when there is none
SearchPath(dirs) ==
  LET hits == {i \in 1..Len(dirs) : IsExecutableFile(dirs[i])}
  IN IF hits = {} THEN 0 ELSE CHOOSE i \in hits : \A j \in hits : i <= j

ExeOk(from, i) == [kind |-> "Ok", from |-> from, index |-> i, err |-> "none"]
ExeErr(e) == [kind |-> "Err", from |-> "none", index |-> 0, err |-> e]

\* exe_path()
ExePath(e) ==
  IF EnvVar(e.electrs_exec) = "Ok" /\ EnvVar(e.electrs_exe) = "Ok"
    THEN ExeErr("BothEnvVars")
  ELSE IF EnvVar(e.electrs_exec) = "Ok" THEN ExeOk("ELECTRS_EXEC", 0)
  ELSE IF EnvVar(e.electrs_exe) = "Ok" THEN ExeOk("ELECTRS_EXE", 0)
  ELSE IF DownloadedExePath(e) = "Some" THEN ExeOk("downloaded", 0)
  ELSE IF EnvVar(e.path) = "Err" THEN ExeErr("NoElectrsExecutableFound")
  ELSE IF SearchPath(e.dirs) # 0 THEN ExeOk("PATH", SearchPath(e.dirs))
  ELSE ExeErr("NoElectrsExecutableFound")

\* the environments exe_path can be called in; PATH has directories only
\* when it is there and readable
ExeEnvs ==
  {e \in [kind : {"exe"}, electrs_exec : VarStates, electrs_exe : VarStates,
          skip_download : VarStates, path : VarStates,
          dirs : DirLists(MaxDirs), has_feature : BOOLEAN] :
     e.path # "unicode" => e.dirs = <<>>}

\* a caller asks for the executable
CallExePath ==
  /\ env.kind = "exe"
  /\ ret = NoRet
  /\ ret' = ExePath(env)
  /\ UNCHANGED <<lifevars, extvars, env>>

InitExe ==
  /\ calls = 0
  /\ pc = "idle"
  /\ conf = DefaultConf
  /\ depth = 0
  /\ frame = NewFrame(DefaultConf)
  /\ spawns = 0
  /\ result = NoResult
  /\ node = [ibd |-> FALSE, p2p |-> TRUE]
  /\ procs = [s \in Slots |-> NoProc]
  /\ foreign = NoPort
  /\ ctl = [c \in Slots |-> NoCtl]
  /\ stray = FALSE
  /\ server = NoIndex
  /\ wait = NoWait
  /\ env \in ExeEnvs
  /\ ret = NoRet

NextExe == CallExePath

SpecExe == InitExe /\ [][NextExe]_vars

\* ------------------------------------------------- the data directory

\* a path given to the library: none, one that is valid Unicode, one that is
\* not (Unix paths are byte strings)
PathEncs == {"utf8", "bytes"}
OptPaths == {"none"} \cup PathEncs

\* what is at conf.staticdir before the call: nothing, a directory (empty or
\* with index files in it), or a file
StaticStates == {"absent", "empty", "full", "file"}

\* a directory of the file system: where it is rooted, how its name is
\* encoded, whether this call made it under a fresh random name
Dir(root, enc, fresh) == [root |-> root, enc |-> enc, fresh |-> fresh]

\* work_dir.path().display() printed with format!: bytes that are not
\* Unicode come out as U+FFFD, which names another path
Display(d) == [d EXCEPT !.enc = IF @ = "bytes" THEN "replaced" ELSE @]

\* let db_dir = format!("{}", work_dir.path().display())
DbDir(d) == Display(d)

DirErr(e) == [kind |-> "Err", err |-> e]

DirOk(variant, d, e) ==
  [kind |-> "Ok", err |-> "none", variant |-> variant, db_dir |-> DbDir(d),
   workdir |-> d,
   static_after |-> IF variant = "Persistent" /\ e.static_state = "absent"
                      THEN "empty" ELSE e.static_state]

\* TempDir::new_in(root), TempDir::new(): a fresh directory under a root that
\* has to exist
TempDirNewIn(root, enc, e) ==
  IF e.root_exists
    THEN DirOk("Temporary", Dir(root, enc, TRUE), e)
    ELSE DirErr("Io")

\* std::fs::create_dir_all(workdir); DataDir::Persistent(workdir.to_owned())
CreateDirAll(e) ==
  IF e.static_state = "file"
    THEN DirErr("Io")
    ELSE DirOk("Persistent", Dir("staticdir", e.staticdir, FALSE), e)

\* let work_dir = match (&conf.tmpdir, &conf.staticdir) { .. }, and the
\* --db-dir argument made of it
WorkDir(e) ==
  IF e.tmpdir # "none" /\ e.staticdir # "none" THEN DirErr("BothDirsSpecified")
  ELSE IF e.tmpdir # "none" THEN TempDirNewIn("tmpdir", e.tmpdir, e)
  ELSE IF e.staticdir # "none" THEN CreateDirAll(e)
  ELSE IF EnvVar(e.tempdir_root) = "Ok"
    THEN TempDirNewIn("TEMPDIR_ROOT", "utf8", e)
  ELSE TempDirNewIn("os", e.os_tmp, e)

\* the Conf, the environment and the file system with_conf can be called in
DirEnvs ==
  [kind : {"dir"}, tmpdir : OptPaths, staticdir : OptPaths,
   tempdir_root : VarStates, os_tmp : PathEncs,
   static_state : StaticStates, root_exists : BOOLEAN]

\* with_conf gets to the choice of its data directory
ChooseWorkDir ==
  /\ env.kind = "dir"
  /\ ret = NoRet
  /\ ret' = WorkDir(env)
  /\ UNCHANGED <<lifevars, extvars, env>>

InitDir ==
  /\ calls = 0
  /\ pc = "idle"
  /\ conf = DefaultConf
  /\ depth = 0
  /\ frame = NewFrame(DefaultConf)
  /\ spawns = 0
  /\ result = NoResult
  /\ node = [ibd |-> FALSE, p2p |-> TRUE]
  /\ procs = [s \in Slots |-> NoProc]
  /\ foreign = NoPort
  /\ ctl = [c \in Slots |-> NoCtl]
  /\ stray = FALSE
  /\ server = NoIndex
  /\ wait = NoWait
  /\ env \in DirEnvs
  /\ ret = NoRet

NextDir == ChooseWorkDir

SpecDir == InitDir /\ [][NextDir]_vars

\* ------------------------------------------------------------------ Next

\* one caller, one call of with_conf, and the life of the controller it
\* returns; the rest of the machine is the daemon and a foreign process
Next ==
  \/ \E c \in Confs : calls = 0 /\ Call(c)
  \/ StartRpcFail
  \/ StartPanic
  \/ StartOk
  \/ WorkDirConflict
  \/ WorkDirIoFail
  \/ WorkDirOk
  \/ PeerPanic
  \/ AllocPorts
  \/ AllocPortsFail
  \/ SpawnOk
  \/ SpawnFail
  \/ PollRetry
  \/ PollEarlyExit
  \/ PollAlive
  \/ ConnectOk
  \/ ConnectRetry
  \/ \E p \in Slots : DaemonListen(p)
  \/ \E p \in Slots : \E s \in OwnStatuses : DaemonExit(p, s)
  \/ \E a \in Ports : ForeignBind(a)
  \/ \E c \in Slots : Trigger(c)
  \/ \E c \in Slots : Kill(c)
  \/ \E c \in Slots : Drop(c)
  \/ \E c \in Slots : KillWait(c)

Spec == Init /\ [][Next]_vars


\* a controller that with_conf has returned for the default Conf, its daemon
\* listening on the ports it was given
ReadyFrame ==
  [NewFrame(DefaultConf) EXCEPT !.work_dir = DataDirOf(DefaultConf),
                                !.electrum_url = 1, !.monitoring = 2,
                                !.process = Waiter]

ReadyCtl ==
  NewController(ReadyFrame, [port |-> ConnectAddr(ReadyFrame), peer |-> Waiter])

ReadyProc == [NewProc(ReadyFrame) EXCEPT !.st = "listening"]

\* the caller holds a controller and the node has a transaction of
\* 0..MaxOutputs outputs to be indexed
InitExt ==
  /\ calls = 1
  /\ pc = "idle"
  /\ conf = DefaultConf
  /\ depth = 0
  /\ frame = NewFrame(DefaultConf)
  /\ spawns = 0
  /\ result = NoResult
  /\ node = [ibd |-> FALSE, p2p |-> TRUE]
  /\ procs = [s \in Slots |-> IF s = Waiter THEN ReadyProc ELSE NoProc]
  /\ foreign = NoPort
  /\ ctl = [c \in Slots |-> IF c = Waiter THEN ReadyCtl ELSE NoCtl]
  /\ stray = FALSE
  /\ \E o \in 0..MaxOutputs : server = [NoIndex EXCEPT !.outputs = o]
  /\ wait = NoWait
  /\ env = NoEnv
  /\ ret = NoRet

NextExt ==
  \/ ServerIndexBlock
  \/ ServerIndexTx
  \/ ServerStop
  \/ \E h \in 1..MaxHeight : CallWaitHeight(h)
  \/ HeightProbe
  \/ HeightSleep
  \/ CallWaitTx
  \/ TxProbe
  \/ TxHistory
  \/ TxSleep
  \/ WaitReturn

SpecExt == InitExt /\ [][NextExt]_vars

\* the Confs of two controllers made one after the other for one node, as
\* ElectrsD::new makes them, with or without the http endpoint
PairConfs ==
  {c \in Confs :
     ~c.view_stderr /\ ~c.tmpdir /\ ~c.staticdir /\ c.attempts <= 1}

\* a second call of with_conf, made while the first controller is alive
CallSecond(c) ==
  /\ calls = 1
  /\ ctl[1].st = "live"
  /\ Call(c)

NextPair ==
  \/ \E c \in PairConfs : calls = 0 /\ Call(c)
  \/ \E c \in PairConfs : CallSecond(c)
  \/ StartRpcFail
  \/ StartPanic
  \/ StartOk
  \/ WorkDirIoFail
  \/ WorkDirOk
  \/ PeerPanic
  \/ AllocPorts
  \/ AllocPortsFail
  \/ SpawnOk
  \/ SpawnFail
  \/ PollRetry
  \/ PollEarlyExit
  \/ PollAlive
  \/ ConnectOk
  \/ ConnectRetry
  \/ \E p \in Slots : DaemonListen(p)
  \/ \E p \in Slots : DaemonExit(p, StatusFail)
  \/ \E a \in Ports : ForeignBind(a)

SpecPair == Init /\ [][NextPair]_vars

\* the steps of the thread inside with_conf: it is never suspended for ever
WithConfStep ==
  \/ StartRpcFail
  \/ StartPanic
  \/ StartOk
  \/ WorkDirConflict
  \/ WorkDirIoFail
  \/ WorkDirOk
  \/ PeerPanic
  \/ AllocPorts
  \/ AllocPortsFail
  \/ SpawnOk
  \/ SpawnFail
  \/ PollRetry
  \/ PollEarlyExit
  \/ PollAlive
  \/ ConnectOk
  \/ ConnectRetry

\* one call of with_conf by a thread that keeps running, next to a daemon and
\* a foreign process that owe nothing
NextPoll ==
  \/ \E c \in Confs : calls = 0 /\ Call(c)
  \/ WithConfStep
  \/ \E p \in Slots : DaemonListen(p)
  \/ \E p \in Slots : \E s \in OwnStatuses : DaemonExit(p, s)
  \/ \E a \in Ports : ForeignBind(a)

SpecPoll == Init /\ [][NextPoll]_vars /\ WF_vars(WithConfStep)

\* one call of with_conf in a test program where the caller is not the only
\* one to wait for children, so that try_wait() can fail
NextReap ==
  \/ \E c \in Confs : calls = 0 /\ Call(c)
  \/ WithConfStep
  \/ PollWaitFail
  \/ \E p \in Slots : DaemonListen(p)
  \/ \E p \in Slots : DaemonExit(p, StatusFail)
  \/ \E p \in Slots : ReapedElsewhere(p)
  \/ \E a \in Ports : ForeignBind(a)

SpecReap == Init /\ [][NextReap]_vars

\* ---------------------------------------------------------------- claims

\* a call of with_conf is over and its result has not been taken yet
Finished == pc = "idle" /\ depth > 0

\* a controller that was dropped, with its bookkeeping still in place
Released(c) == ctl[c].st = "dropped" /\ ctl[c].process # 0

\* C1: a call of with_conf with both tmpdir and staticdir set returns
\* Error::BothDirsSpecified, and in that call no port is allocated and no
\* subprocess is spawned.
C1_BothDirsError ==
  (Finished /\ conf.tmpdir /\ conf.staticdir) =>
     /\ result = ErrResult("BothDirsSpecified")
     /\ frame.allocs = 0
     /\ spawns = 0

C3_SpawnsWithinBudget == depth > 0 => spawns <= conf.attempts

\* C4: with_conf fails with the early-exit error only when an exit is seen
\* with the budget at zero, and the status in the error is the exit status
\* of the last subprocess spawned.
C4_EarlyExitIsLast ==
  result.err = "EarlyExit" =>
     /\ Finished
     /\ frame.conf.attempts = 0
     /\ frame.process = calls /\ spawns = depth
     /\ procs[calls].st = "reaped"
     /\ result.status = procs[calls].status
     /\ result.status \in OwnStatuses

C4_Witness ==
  result.err = "EarlyExit" /\ depth = 3 /\ result.status = StatusFail

\* C5: with_conf returns a controller only after a connection to the address
\* in electrum_url succeeded, in an iteration whose exit check found the
\* subprocess running; client is that connection and electrum_url is the
\* address given to the subprocess as --electrum-rpc-addr.
C5_ReadyAfterHandshake ==
  (Finished /\ result.kind = "Ok") =>
     LET k == ctl[calls] IN
     /\ k.st = "live"
     /\ frame.try_wait = "None"
     /\ k.process = frame.process
     /\ procs[k.process].st \in {"starting", "listening", "zombie"}
     /\ k.electrum_url \in Ports
     /\ k.client.port = k.electrum_url
     /\ k.electrum_url = frame.args.electrum

C5_Witness ==
  Finished /\ result.kind = "Ok" /\ ctl[calls].client.peer = calls

\* C6: kill() on a Persistent controller sends SIGINT and then blocks; it
\* returns Ok only once the subprocess has been waited.
C6_PersistentKillWaits ==
  \A c \in Slots :
    ctl[c].work_dir = "Persistent" =>
      /\ ctl[c].op # "none" => ctl[c].sigints >= 1
      /\ ctl[c].ret = "Ok" =>
           /\ ctl[c].sigints >= 1
           /\ ctl[c].waited
           /\ procs[ctl[c].process].st = "reaped"

C6_Witness ==
  \E c \in Slots :
    ctl[c].work_dir = "Persistent" /\ ctl[c].ret = "Ok" /\ ctl[c].st = "live"

\* C7: kill() on a Temporary controller sends SIGKILL, never SIGINT, and
\* returns without waiting for the subprocess: it never blocks.
C7_TemporaryKillForceful ==
  \A c \in Slots :
    ctl[c].work_dir = "Temporary" =>
      /\ ctl[c].op = "none"
      /\ ctl[c].sigints = 0
      /\ ctl[c].waits = 0
      /\ ctl[c].sigkills = ctl[c].kills
      /\ ctl[c].kills > 0 => procs[ctl[c].process].st = "zombie"
      /\ ctl[c].explicit > 0 => ctl[c].ret = "Ok"

C7_Witness ==
  \E c \in Slots :
    /\ ctl[c].work_dir = "Temporary" /\ ctl[c].st = "live"
    /\ ctl[c].ret = "Ok"
    /\ procs[ctl[c].process].status = StatusKilled

\* C8: once a controller is dropped without an explicit kill(), its
\* subprocess is not alive, for a Temporary and for a Persistent directory.
C8_DropTerminates ==
  \A c \in Slots :
    (Released(c) /\ ctl[c].explicit = 0) =>
       procs[ctl[c].process].st \in {"zombie", "reaped"}

C8_Witness ==
  \E c \in Slots :
    /\ Released(c) /\ ctl[c].explicit = 0
    /\ ctl[c].work_dir = "Persistent"
    /\ procs[ctl[c].process].st = "reaped"
    /\ procs[ctl[c].process].status = StatusOk

\* C9: drop never surfaces an error, whatever the state of the subprocess;
\* the error of the implicit kill() is discarded.
C9_DropSilent == \A c \in Slots : ctl[c].surfaced = "none"

C9_Witness ==
  \E c \in Slots : Released(c) /\ ctl[c].dropkill = "Err"

\* C10: over the life of a controller its process handle is terminated or
\* waited exactly once: by the time it has been dropped, kill() has run once.
C10_HandleEndedOnce == \A c \in Slots : Released(c) => ctl[c].kills = 1

\* the header of the height wait_height was asked about can be retrieved
HeaderThere == ServerUp /\ wait.arg <= server.tip

\* C11: wait_height(h) asks for the header at height h: it returns at the
\* first probe that gets it, sleeps after every probe that fails, makes at
\* most 600 probes and then returns without an error; a chain that only
\* reaches h - 1 never makes it return before the 600 probes are spent.
C11_WaitHeightProbes ==
  /\ [](wait.fn = "wait_height" =>
          /\ wait.i <= WaitHeightAttempts
          /\ wait.pc # "panic"
          /\ ~wait.unslept
          /\ (wait.pc = "done" /\ wait.how = "found") => server.tip >= wait.arg
          /\ (wait.pc = "done" /\ wait.how = "exhausted") =>
               wait.i = WaitHeightAttempts)
  /\ [][(wait.fn = "wait_height" /\ wait.pc = "probe" /\ wait' # wait) =>
          /\ wait'.i = wait.i + 1
          /\ wait'.pc = IF HeaderThere THEN "done" ELSE "sleep"]_vars

C11_Witness ==
  /\ wait.fn = "wait_height" /\ wait.pc = "done" /\ wait.how = "exhausted"
  /\ ServerUp /\ wait.arg = MaxHeight /\ server.tip = wait.arg - 1

\* C12: when wait_tx returns before its attempts are spent, a transaction
\* with an output was retrieved and found in the history of its first
\* output's script in that same attempt; a transaction with no output makes
\* it return at the first attempt that retrieves it, no history being asked.
C12_WaitTxReturns ==
  /\ []((wait.fn = "wait_tx" /\ wait.pc = "done" /\ wait.how = "found") =>
          /\ wait.raw
          /\ server.tx # "unknown"
          /\ IF server.outputs > 0
               THEN wait.hist = "hit" /\ server.tx = "indexed"
               ELSE ~wait.asked)
  /\ [][(wait.fn = "wait_tx" /\ wait.pc = "probe" /\ wait' # wait
           /\ server.outputs = 0 /\ ServerUp /\ server.tx # "unknown") =>
          wait'.pc = "done" /\ wait'.how = "found"]_vars

C12_Witness ==
  /\ wait.fn = "wait_tx" /\ wait.pc = "done" /\ wait.how = "found"
  /\ server.outputs = MaxOutputs /\ wait.i = 3 /\ wait.unslept

\* C13: wait_tx makes at most 600 attempts, and every attempt that does not
\* make it return is followed by a sleep: when the transaction cannot be
\* retrieved, and when it can but the history does not hold it yet.
C13_WaitTxSleeps ==
  wait.fn = "wait_tx" => (wait.i <= WaitTxAttempts /\ ~wait.unslept)

\* the endpoint addresses of the first controller, and those the second call
\* gave its subprocess
FirstEndpoints ==
  {ctl[1].electrum_url, ctl[1].esplora_url, procs[1].monitoring} \ {NoPort}
SecondEndpoints ==
  {frame.args.electrum, frame.args.monitoring, frame.args.http} \ {NoPort}

\* C14 as claimed: the controller a second with_conf returns while the first
\* controller is alive has no endpoint address that is one of the first's.
C14_SecondIsDistinct ==
  (calls = 2 /\ Finished /\ result.kind = "Ok" /\ ctl[1].st = "live") =>
     SecondEndpoints \cap FirstEndpoints = {}

\* C14, amended: the second call is never given a port the subprocess of the
\* first controller is listening on, and two controllers whose subprocesses
\* both listen have no endpoint address in common.
C14_NoListeningPortReused ==
  /\ [][(calls = 2 /\ pc = "ports" /\ pc' = "spawn") =>
          ({frame'.electrum_url, frame'.monitoring, frame'.esplora_url}
             \cap Held(1) = {})]_vars
  /\ []((ctl[1].st = "live" /\ ctl[2].st = "live"
           /\ procs[1].st = "listening" /\ procs[2].st = "listening") =>
          /\ ctl[2].electrum_url # ctl[1].electrum_url
          /\ {ctl[2].electrum_url, ctl[2].esplora_url, procs[2].monitoring}
               \cap FirstEndpoints = {})

C14_Witness ==
  /\ calls = 2 /\ Finished /\ result.kind = "Ok"
  /\ ctl[1].st = "live" /\ ctl[2].st = "live"
  /\ procs[1].st = "listening" /\ procs[2].st = "listening"
  /\ ctl[1].client.peer = 1 /\ ctl[2].client.peer = 2

\* a variable is set, whatever its value
IsSet(v) == v # "unset"

\* C15: exe_path follows one order of precedence for every input: both
\* ELECTRS_EXEC and ELECTRS_EXE set is the BothEnvVars error; else the one
\* that is set wins; else the downloaded path, with a version feature and
\* without ELECTRSD_SKIP_DOWNLOAD; else the first executable electrs in PATH
\* order; else NoElectrsExecutableFound.
C15_ExePathPrecedence ==
  (env.kind = "exe" /\ ret # NoRet) =>
     ret = IF IsSet(env.electrs_exec) /\ IsSet(env.electrs_exe)
             THEN ExeErr("BothEnvVars")
           ELSE IF IsSet(env.electrs_exec) THEN ExeOk("ELECTRS_EXEC", 0)
           ELSE IF IsSet(env.electrs_exe) THEN ExeOk("ELECTRS_EXE", 0)
           ELSE IF env.has_feature /\ ~IsSet(env.skip_download)
             THEN ExeOk("downloaded", 0)
           ELSE IF \E i \in 1..Len(env.dirs) : env.dirs[i] = "exec"
             THEN ExeOk("PATH", CHOOSE i \in 1..Len(env.dirs) :
                                  /\ env.dirs[i] = "exec"
                                  /\ \A j \in 1..(i - 1) : env.dirs[j] # "exec")
           ELSE ExeErr("NoElectrsExecutableFound")

\* C16: the pair (tmpdir, staticdir) decides the data directory: both set is
\* an error; staticdir alone gives Persistent(staticdir), made if missing and
\* left as it is if there; tmpdir alone gives a fresh Temporary directory
\* under it; neither gives a fresh Temporary directory under TEMPDIR_ROOT if
\* that is set, else under the OS default. The directory's path is what
\* --db-dir is given and what workdir() returns.
C16_DataDirByPair ==
  (env.kind = "dir" /\ ret # NoRet) =>
     /\ (env.tmpdir # "none" /\ env.staticdir # "none") =>
          ret = DirErr("BothDirsSpecified")
     /\ (env.tmpdir = "none" /\ env.staticdir # "none"
           /\ env.static_state \in {"empty", "full"}) => ret.kind = "Ok"
     /\ ret.kind = "Ok" =>
          /\ ret.db_dir = ret.workdir
          /\ IF env.staticdir # "none"
               THEN /\ ret.variant = "Persistent"
                    /\ ret.workdir = Dir("staticdir", env.staticdir, FALSE)
                    /\ ret.static_after =
                         (IF env.static_state = "absent"
                            THEN "empty" ELSE env.static_state)
             ELSE /\ ret.variant = "Temporary"
                  /\ ret.workdir.fresh
                  /\ ret.static_after = env.static_state
                  /\ ret.workdir.root =
                       (IF env.tmpdir # "none" THEN "tmpdir"
                        ELSE IF IsSet(env.tempdir_root) THEN "TEMPDIR_ROOT"
                        ELSE "os")

\* C17 as claimed: a spawn failure reaches the caller of with_conf only once
\* the retry budget is spent.
C17_SpawnFailureRetried ==
  result.err = "Spawn" => frame.conf.attempts = 0

\* C17, amended: a spawn failure is not retried: the activation that could
\* not spawn returns the error at once, whatever budget is left, and no
\* budget is taken.
C17_SpawnFailureImmediate ==
  /\ [](result.err = "Spawn" =>
          (Finished /\ frame.process = 0 /\ spawns = depth - 1))
  /\ [][(pc = "spawn" /\ pc' # pc /\ spawns' = spawns) =>
          /\ pc' = "idle"
          /\ result' = ErrResult("Spawn")
          /\ depth' = depth
          /\ frame'.conf = frame.conf]_vars

C17_Witness ==
  /\ Finished /\ result.err = "Spawn"
  /\ depth = 2 /\ frame.conf.attempts > 0

\* C18: with_conf always comes to an end, also next to a subprocess that
\* stays alive and never accepts a connection: the handshake is attempted a
\* bounded number of times.
C18_PollingEnds == (pc = "connect") ~> (pc = "idle")

\* C19: in every iteration of the polling loop the exit check comes first:
\* when it finds the subprocess exited, the loop is left at once, for the
\* retry or with the error, with no handshake, no sleep and no controller.
C19_ExitCheckFirst ==
  /\ [](pc = "connect" =>
          (frame.try_wait = "None" /\ frame.process = calls
             /\ procs[frame.process].st # "reaped"))
  /\ [][(pc = "poll" /\ pc' # pc /\ procs[frame.process].st = "zombie") =>
          /\ pc' \in {"start", "idle"}
          /\ pc' = "idle" => result'.err = "EarlyExit"
          /\ ctl' = ctl
          /\ procs'[frame.process].st = "reaped"]_vars

C19_Witness ==
  /\ Finished /\ result.err = "EarlyExit"
  /\ frame.try_wait = StatusOk /\ depth = 2
  /\ ctl[calls].st = "none"

\* C20: no failure inside an API call ends it by a panic: a failing call to
\* the companion node or a node without a p2p endpoint makes with_conf
\* return Err, and a failing history query makes wait_tx count a failed
\* attempt.
C20_NoPanic == result.kind # "Panic" /\ wait.pc # "panic"


\* C21: every subprocess with_conf spawns, the first one and each one
\* spawned again after an early exit, has its standard output discarded, and
\* its standard error inherited if conf.view_stderr and discarded if not.
C21_StdioOfSubprocess ==
  (pc \in {"poll", "connect"} /\ Alive(frame.process)) =>
     /\ procs[frame.process].stdout = "null"
     /\ procs[frame.process].stderr =
          (IF conf.view_stderr THEN "inherit" ELSE "null")


\* C22: whatever the other processes of the machine bind, the daemons of
\* other controllers included, the connection held by a controller that
\* with_conf returned was accepted by the subprocess of that controller, and
\* two live controllers never report the same control endpoint.
C22_ReadyOnOwnDaemon ==
  /\ \A c \in Slots :
        ctl[c].st = "live" => ctl[c].client.peer = ctl[c].process
  /\ (ctl[1].st = "live" /\ ctl[2].st = "live") =>
        ctl[1].electrum_url # ctl[2].electrum_url


\* C23: when with_conf returns an error, every subprocess the call spawned,
\* at the first attempt or at a retry, has exited: after an early exit with
\* no attempt left, after an error of the exit check, after an error in a
\* retry, no spawned subprocess is left running.
C23_NoOrphan ==
  (Finished /\ result.kind = "Err") => \A p \in Slots : ~Alive(p)

\* the exit check of a second subprocess fails and the call returns the error
C23_Witness ==
  /\ Finished
  /\ result = ErrResult("Io")
  /\ frame.try_wait = "Err"
  /\ spawns = 2


\* C24: a controller never signals the pid of its subprocess once it has
\* waited for it, whatever the sequence of trigger(), kill() and drop: no
\* SIGINT or SIGUSR1 goes to a pid the controller has reaped, which the
\* call would see as ESRCH or which would reach the new owner of the pid.
C24_NoSignalAfterReap ==
  /\ ~stray
  /\ \A c \in Slots : ctl[c].ret # "Err" /\ ctl[c].dropkill # "Err"


\* C25: a call of with_conf that fails with the configuration error (tmpdir
\* and staticdir both set) has no effect outside itself: no directory is
\* created and no block is generated on the companion node, also when the
\* node reports initial block download.
C25_ConfigErrorNoEffect ==
  (Finished /\ result = ErrResult("BothDirsSpecified")) =>
     /\ frame.generated = 0
     /\ frame.work_dir = "none"

====
